---- MODULE Spec2Model ----
(***************************************************************************)
(* A model of the embedded-mqtt codec: the value codecs, the fixed header, *)
(* the variable headers, the payloads and the packet aggregator, written   *)
(* as operators that compute what the Rust functions compute, and a small  *)
(* state machine of a caller that builds, encodes, receives and decodes    *)
(* packets.                                                                *)
(*                                                                         *)
(* Conventions.                                                            *)
(*  - A byte slice is a sequence over 0..255; a &str is the sequence of    *)
(*    its UTF-8 bytes (the code borrows the bytes, it never copies them).  *)
(*  - Result<Status<(usize, T)>, DecodeError> is a record                  *)
(*    [kind, n, val, err]: kind is "Complete" (n bytes consumed, val the   *)
(*    value), "Partial" (n bytes needed), "Err" (err names the             *)
(*    DecodeError) or "Panic" (the call unwinds).                          *)
(*  - Result<usize, EncodeError> together with the buffer the call wrote   *)
(*    into is a record [kind, n, err, buf]: kind is "Ok", "Err" or         *)
(*    "Panic"; buf is the content of the slice after the call.             *)
(*  - A usize that wrapped below zero (builds without overflow checks) is  *)
(*    kept as the negative integer it is congruent to modulo the word      *)
(*    size.                                                                *)
(***************************************************************************)
EXTENDS Integers, Sequences, FiniteSets, TLC

VARIABLES
    pc,               \* where the caller is: "idle", "called", "built", "encoded",
                      \* "failed", "wire", "decoded"
    op,               \* the function the caller invoked last
    arg,              \* the scalar argument of that call (0 when it has none)
    packet,           \* the result of the last typed constructor
    out,              \* the result of the last encode call, with the buffer it wrote
    wire,             \* the bytes of one packet travelling to the receiver
    bytes,            \* the buffer handed to the last decode / parse call
    result,           \* what that call returned
    input,            \* the other arguments of the last call
    iter,             \* the Iter the caller got from Subscribe::topics()
    alone,            \* what Packet::decode returned on the first packet alone
    overflow_checks   \* whether the build checks integer overflow (debug) or wraps (release)

vars == <<pc, op, arg, packet, out, wire, bytes, result, input, iter, alone, overflow_checks>>

-----------------------------------------------------------------------------
(* Bits and slices *)

Pow2(i) == 2 ^ i

\* bit i of x, bit 0 the least significant
Bit(x, i) == (x \div Pow2(i)) % 2

RECURSIVE BitAndFrom(_, _, _)
BitAndFrom(a, b, i) ==
    IF i > 7 THEN 0
    ELSE Bit(a, i) * Bit(b, i) * Pow2(i) + BitAndFrom(a, b, i + 1)

\* a & b on u8
BitAnd(a, b) == BitAndFrom(a, b, 0)

\* a | b on u8
BitOr(a, b) == a + b - BitAnd(a, b)

\* BitRange::bit_range(msb, lsb) of a u8 bit field
bit_range(x, msb, lsb) == (x \div Pow2(lsb)) % Pow2(msb - lsb + 1)

\* BitRange::set_bit_range(msb, lsb, value)
set_bit_range(x, msb, lsb, value) ==
    x - bit_range(x, msb, lsb) * Pow2(lsb) + (value % Pow2(msb - lsb + 1)) * Pow2(lsb)

Min(a, b) == IF a < b THEN a ELSE b

\* &s[from..]
Drop(s, from) == SubSeq(s, from + 1, Len(s))

\* &s[..to]
Take(s, to) == SubSeq(s, 1, to)

\* &s[from..to]
Slice(s, from, to) == SubSeq(s, from + 1, to)

\* copy data into buf at offset; the caller has checked that it fits
WriteAt(buf, offset, data) ==
    LET end == Min(offset + Len(data), Len(buf)) IN
    SubSeq(buf, 1, offset) \o SubSeq(data, 1, end - offset) \o SubSeq(buf, end + 1, Len(buf))

-----------------------------------------------------------------------------
(* status.rs, error.rs *)

NoVal == <<>>

Complete(n, v) == [kind |-> "Complete", n |-> n, val |-> v, err |-> "none"]

Partial(n) == [kind |-> "Partial", n |-> n, val |-> NoVal, err |-> "none"]

Err(e) == [kind |-> "Err", n |-> 0, val |-> NoVal, err |-> e]

\* Result::Ok(v) of a conversion
Ok(v) == [kind |-> "Ok", n |-> 0, val |-> v, err |-> "none"]

Panic == [kind |-> "Panic", n |-> 0, val |-> NoVal, err |-> "none"]

EncOk(n, buf) == [kind |-> "Ok", n |-> n, err |-> "none", buf |-> buf]

EncErr(e, buf) == [kind |-> "Err", n |-> 0, err |-> e, buf |-> buf]

EncPanic(buf) == [kind |-> "Panic", n |-> 0, err |-> "none", buf |-> buf]

\* the read! and complete! macros: on Complete(n, v) the function goes on with
\* (offset + n, v); anything else is returned to the caller as it is
read(r, offset, rest(_)) ==
    IF r.kind = "Complete" THEN rest(Complete(offset + r.n, r.val)) ELSE r

-----------------------------------------------------------------------------
(* qos.rs *)

QoSValues == {"AtMostOnce", "AtLeastOnce", "ExactlyOnce"}

\* a conversion that matches the whole byte, not byte & 0b11
QoS_try_from_unmasked(byte) ==
    IF byte = 0 THEN [ok |-> TRUE, qos |-> "AtMostOnce"]
    ELSE IF byte = 1 THEN [ok |-> TRUE, qos |-> "AtLeastOnce"]
    ELSE IF byte = 2 THEN [ok |-> TRUE, qos |-> "ExactlyOnce"]
    ELSE [ok |-> FALSE, qos |-> "BadPattern"]

\* TryFrom<u8> for QoS
QoS_try_from(byte) ==
    LET b == BitAnd(byte, 3) IN
    IF b = 0 THEN [ok |-> TRUE, qos |-> "AtMostOnce"]
    ELSE IF b = 1 THEN [ok |-> TRUE, qos |-> "AtLeastOnce"]
    ELSE IF b = 2 THEN [ok |-> TRUE, qos |-> "ExactlyOnce"]
    ELSE [ok |-> FALSE, qos |-> "BadPattern"]

\* From<QoS> for u8
QoS_to_u8(qos) ==
    IF qos = "AtMostOnce" THEN 0
    ELSE IF qos = "AtLeastOnce" THEN 1
    ELSE 2

-----------------------------------------------------------------------------
(* codec/values.rs *)

\* u16::MAX, the largest length a 2-byte prefix holds
U16Max == 65535

parse_u8(b) ==
    IF Len(b) < 1 THEN Partial(1) ELSE Complete(1, b[1])

encode_u8(value, buf) ==
    IF Len(buf) < 1 THEN EncErr("OutOfSpace", buf)
    ELSE EncOk(1, WriteAt(buf, 0, <<value>>))

\* a faulty parse_u16 that takes a short buffer for a malformed one
parse_u16_short_is_error(b) ==
    IF Len(b) < 2 THEN Err("InvalidLength")
    ELSE Complete(2, b[1] * 256 + b[2])

\* a faulty parse_u16 that asks for both bytes whatever it already holds
parse_u16_asks_two(b) ==
    IF Len(b) < 2 THEN Partial(2)
    ELSE Complete(2, b[1] * 256 + b[2])

parse_u16(b) ==
    IF Len(b) < 2 THEN Partial(2 - Len(b))
    ELSE Complete(2, b[1] * 256 + b[2])

encode_u16(value, buf) ==
    IF Len(buf) < 2 THEN EncErr("OutOfSpace", buf)
    ELSE EncOk(2, WriteAt(buf, 0, <<value \div 256, value % 256>>))

parse_bytes(b) ==
    read(parse_u16(b), 0, LAMBDA h :
        LET offset == h.n
            len == h.val
            available == Len(b) - offset
            needed == len - Min(available, len)
        IN  IF needed > 0 THEN Partial(needed)
            ELSE Complete(offset + len, Slice(b, offset, offset + len)))

encode_bytes(value, buf) ==
    IF Len(value) > U16Max THEN EncErr("ValueTooBig", buf)
    ELSE
        LET h == encode_u16(Len(value), buf) IN
        IF h.kind # "Ok" THEN h
        ELSE IF h.n + Len(value) > Len(buf) THEN EncErr("OutOfSpace", h.buf)
        ELSE EncOk(h.n + Len(value), WriteAt(h.buf, h.n, value))

-----------------------------------------------------------------------------
(* codec/string.rs *)

IsCont(b) == b >= 128 /\ b <= 191

\* core::str::from_utf8: the code points of s from index i on, or <<-1>> at
\* the end of the list where the bytes stop being well-formed UTF-8
\* (shortest form only, no surrogates, nothing above U+10FFFF)
RECURSIVE Utf8Chars(_, _)
Utf8Chars(s, i) ==
    IF i > Len(s) THEN <<>>
    ELSE
        LET b0 == s[i]
            has(k) == i + k <= Len(s) /\ \A j \in 1..k : IsCont(s[i + j])
        IN  IF b0 < 128 THEN <<b0>> \o Utf8Chars(s, i + 1)
            ELSE IF b0 >= 194 /\ b0 <= 223 /\ has(1)
                THEN <<(b0 - 192) * 64 + (s[i + 1] - 128)>> \o Utf8Chars(s, i + 2)
            ELSE IF b0 >= 224 /\ b0 <= 239 /\ has(2)
                    /\ (b0 = 224 => s[i + 1] >= 160)
                    /\ (b0 = 237 => s[i + 1] <= 159)
                THEN <<(b0 - 224) * 4096 + (s[i + 1] - 128) * 64 + (s[i + 2] - 128)>>
                        \o Utf8Chars(s, i + 3)
            ELSE IF b0 >= 240 /\ b0 <= 244 /\ has(3)
                    /\ (b0 = 240 => s[i + 1] >= 144)
                    /\ (b0 = 244 => s[i + 1] <= 143)
                THEN <<(b0 - 240) * 262144 + (s[i + 1] - 128) * 4096
                            + (s[i + 2] - 128) * 64 + (s[i + 3] - 128)>>
                        \o Utf8Chars(s, i + 4)
            ELSE <<-1>>

from_utf8_ok(s) ==
    LET chars == Utf8Chars(s, 1) IN \A i \in DOMAIN chars : chars[i] # -1

\* val.chars().any(|ch| ch == '\u{0000}')
has_nul_char(s) ==
    LET chars == Utf8Chars(s, 1) IN \E i \in DOMAIN chars : chars[i] = 0

\* a + b in u16: the sum, or -1 where the addition panics
u16_add(a, b) ==
    IF a + b <= U16Max THEN a + b
    ELSE IF overflow_checks THEN -1
    ELSE (a + b) % (U16Max + 1)

parse_string(b) ==
    read(parse_u16(b), 0, LAMBDA h :
        LET offset == h.n
            string_len == h.val
            available == Len(b) - offset
            needed == string_len - Min(available, string_len)
            \* (2 + string_len) as usize: the addition is done in u16
            end == u16_add(2, string_len)
        IN  IF needed > 0 THEN Partial(needed)
            ELSE IF string_len > 0 /\ end = -1 THEN Panic
            \* &bytes[2..end] panics when 2 > end or end > bytes.len()
            ELSE IF string_len > 0 /\ (2 > end \/ end > Len(b)) THEN Panic
            ELSE IF string_len > 0 /\ ~from_utf8_ok(Slice(b, 2, end)) THEN Err("Utf8")
            ELSE IF string_len > 0 /\ has_nul_char(Slice(b, 2, end)) THEN Err("Utf8")
            ELSE IF end = -1 THEN Panic
            ELSE Complete(end, IF string_len > 0 THEN Slice(b, 2, end) ELSE <<>>))

encode_string(string, buf) ==
    IF Len(string) > U16Max THEN EncErr("ValueTooBig", buf)
    ELSE
        LET size == Len(string)
            \* (2 + size) as usize: the addition is done in u16
            sum == u16_add(2, size)
        IN  IF sum = -1 THEN EncPanic(buf)
            ELSE IF Len(buf) < sum THEN EncErr("OutOfSpace", buf)
            \* &mut bytes[0..2] and &mut bytes[2..2 + size] panic past the end
            ELSE IF Len(buf) < 2 + size THEN EncPanic(buf)
            ELSE EncOk(2 + size,
                       WriteAt(WriteAt(buf, 0, <<size \div 256, size % 256>>), 2, string))

\* Encodable for str
str_encoded_len(string) == 2 + Len(string)

-----------------------------------------------------------------------------
(* fixed_header/mod.rs, fixed_header/packet_flags.rs *)

PacketTypes ==
    <<"Connect", "Connack", "Publish", "Puback", "Pubrec", "Pubrel", "Pubcomp",
      "Subscribe", "Suback", "Unsubscribe", "Unsuback", "Pingreq", "Pingresp",
      "Disconnect">>

ZERO_TYPES ==
    {"Connect", "Connack", "Puback", "Pubrec", "Pubcomp", "Suback", "Unsuback",
     "Pingreq", "Pingresp", "Disconnect"}

ONE_TYPES == {"Pubrel", "Subscribe", "Unsubscribe"}

FixedHeader_new(type, flags, len) == [type |-> type, flags |-> flags, len |-> len]

\* the result of validate_flag_val / validate_flag / parse_packet_type
TypeOk(type, flags) == [ok |-> TRUE, type |-> type, flags |-> flags, err |-> "none"]

TypeErr(e) == [ok |-> FALSE, type |-> "none", flags |-> 0, err |-> e]

validate_flag_val(packet_type, flags, types, expected_flags) ==
    IF packet_type \in types /\ flags # expected_flags
    THEN TypeErr("PacketFlag")
    ELSE TypeOk(packet_type, flags)

\* a faulty validate_flag that expects 0b0001 of the ONE_TYPES
validate_flag_expects_one(packet_type, flags) ==
    IF ~validate_flag_val(packet_type, flags, ZERO_TYPES, 0).ok
    THEN validate_flag_val(packet_type, flags, ZERO_TYPES, 0)
    ELSE validate_flag_val(packet_type, flags, ONE_TYPES, 1)

validate_flag(packet_type, flags) ==
    LET zero == validate_flag_val(packet_type, flags, ZERO_TYPES, 0) IN
    IF ~zero.ok THEN zero
    ELSE validate_flag_val(packet_type, flags, ONE_TYPES, 2)

parse_packet_type(inp) ==
    LET nibble == BitAnd(inp, 240) \div 16 IN
    IF nibble \in 1..14
    THEN validate_flag(PacketTypes[nibble], BitAnd(inp, 15))
    ELSE TypeErr("PacketType")

encode_packet_type(type, flags) ==
    LET packet_type == CHOOSE i \in 1..14 : PacketTypes[i] = type IN
    BitOr((packet_type * 16) % 256, flags)

\* a faulty digit cap, one digit short: 128 * 128
MaxMultiplier_three_digits == 128 * 128

\* the multiplier above which parse_remaining_length gives up: 128 * 128 * 128
MaxMultiplier == 2097152

\* the loop of parse_remaining_length, one iteration per call
RECURSIVE parse_remaining_length_loop(_, _, _, _)
parse_remaining_length_loop(b, multiplier, value, index) ==
    IF multiplier > MaxMultiplier THEN Err("RemainingLength")
    ELSE IF index >= Len(b) THEN Partial(1)
    ELSE
        LET byte == b[index + 1]
            value2 == value + BitAnd(byte, 127) * multiplier
        IN  IF BitAnd(byte, 128) = 0 THEN Complete(index + 1, value2)
            ELSE parse_remaining_length_loop(b, multiplier * 128, value2, index + 1)

\* a faulty parse_remaining_length whose first digit already weighs 128
parse_remaining_length_from_128(b) == parse_remaining_length_loop(b, 128, 0, 0)

parse_remaining_length(b) == parse_remaining_length_loop(b, 1, 0, 0)

\* the loop of encode_remaining_length over buf: [u8; 4]; the digits written,
\* or <<-1>> where buf[index] is out of bounds (a fifth digit)
RECURSIVE encode_remaining_length_loop(_, _)
encode_remaining_length_loop(len, index) ==
    IF index >= 4 THEN <<-1>>
    ELSE
        LET rest == len \div 128
            low == (len % 256) % 128
            byte == IF rest > 0 THEN BitOr(low, 128) ELSE low
        IN  IF rest = 0 THEN <<byte>>
            ELSE <<byte>> \o encode_remaining_length_loop(rest, index + 1)

\* encode_remaining_length: the digits buf[..index] it wrote (index is their
\* count), or <<-1>> at the end where it panics
encode_remaining_length(len) == encode_remaining_length_loop(len, 0)

encode_panics(digits) == Len(digits) > 0 /\ digits[Len(digits)] = -1

FixedHeader_decode(b) ==
    IF Len(b) < 2 THEN Partial(2 - Len(b))
    ELSE
        LET t == parse_packet_type(b[1]) IN
        IF ~t.ok THEN Err(t.err)
        ELSE read(parse_remaining_length(Drop(b, 1)), 1, LAMBDA r :
                Complete(r.n, FixedHeader_new(t.type, t.flags, r.val)))

\* Encodable for FixedHeader; -1 where encode_remaining_length panics
FixedHeader_encoded_len(fh) ==
    LET digits == encode_remaining_length(fh.len) IN
    IF encode_panics(digits) THEN -1 ELSE 1 + Len(digits)

FixedHeader_encode(fh, buf) ==
    LET first == encode_u8(encode_packet_type(fh.type, fh.flags), buf) IN
    IF first.kind # "Ok" THEN first
    ELSE
        LET digits == encode_remaining_length(fh.len)
            o == Len(digits)
        IN  IF encode_panics(digits) THEN EncPanic(first.buf)
            \* &mut bytes[offset..offset + o] panics past the end of bytes
            ELSE IF 1 + o > Len(buf) THEN EncPanic(first.buf)
            ELSE EncOk(1 + o, WriteAt(first.buf, 1, digits))

\* PublishFlags: dup is bit 3, qos bits 2..1, retain bit 0
PublishFlags_qos(flags) == QoS_try_from(bit_range(flags, 2, 1))

PublishFlags_set_qos(flags, qos) == set_bit_range(flags, 2, 1, QoS_to_u8(qos))

\* a conversion that accepts every nibble
PublishFlags_try_from_any(flags) == TRUE

\* TryFrom<PacketFlags> for PublishFlags
PublishFlags_try_from(flags) == PublishFlags_qos(flags).ok

-----------------------------------------------------------------------------
(* variable_header/*.rs *)

\* One record shape for every VariableHeader variant; a field a variant does
\* not have keeps the value it has in NoHeader.  tag "None" is Option::None.
NoHeader ==
    [tag |-> "None", name |-> <<>>, level |-> 0, flags |-> 0, keep_alive |-> 0,
     return_code |-> 0, topic_name |-> <<>>, has_id |-> FALSE, id |-> 0]

\* variable_header::connect::Connect { name, level, flags, keep_alive }
ConnectHeader(name, level, flags, keep_alive) ==
    [NoHeader EXCEPT !.tag = "Connect", !.name = name, !.level = level,
                     !.flags = flags, !.keep_alive = keep_alive]

\* Connect::new(Protocol::MQTT, Level::Level3_1_1, flags, keep_alive)
ConnectHeader_new(flags, keep_alive) ==
    ConnectHeader(<<77, 81, 84, 84>>, 4, flags, keep_alive)

\* variable_header::connack::Connack { flags, return_code }
ConnackHeader(flags, return_code) ==
    [NoHeader EXCEPT !.tag = "Connack", !.flags = flags, !.return_code = return_code]

\* PacketIdentifier(u16) under the variant named by tag
PacketIdentifier(tag, id) == [NoHeader EXCEPT !.tag = tag, !.has_id = TRUE, !.id = id]

\* variable_header::publish::Publish { topic_name, packet_identifier: Option }
PublishHeader(topic_name, has_id, id) ==
    [NoHeader EXCEPT !.tag = "Publish", !.topic_name = topic_name,
                     !.has_id = has_id, !.id = id]

\* connect::Flags accessors
has_username(flags) == Bit(flags, 7) = 1
has_password(flags) == Bit(flags, 6) = 1
will_retain(flags) == Bit(flags, 5) = 1
will_qos(flags) == QoS_try_from(bit_range(flags, 4, 3))
has_will(flags) == Bit(flags, 2) = 1
clean_session(flags) == Bit(flags, 1) = 1

\* connack::Flags::session_present
session_present(flags) == Bit(flags, 1) = 1

\* the protocol level byte of Level::Level3_1_1
Level3_1_1 == 4

Connect_decode(b) ==
    read(parse_string(b), 0, LAMBDA name :
    read(parse_u8(Drop(b, name.n)), name.n, LAMBDA level :
    IF level.val # Level3_1_1 THEN Err("InvalidProtocolLevel") ELSE
    read(parse_u8(Drop(b, level.n)), level.n, LAMBDA flags :
    IF ~will_qos(flags.val).ok THEN Err("InvalidConnectFlag") ELSE
    read(parse_u16(Drop(b, flags.n)), flags.n, LAMBDA keep_alive :
    Complete(keep_alive.n,
             ConnectHeader(name.val, level.val, flags.val, keep_alive.val))))))

ConnectHeader_encoded_len(h) == str_encoded_len(h.name) + 1 + 1 + 2

\* run one field encoder on &mut bytes[offset..] and add what it wrote
EncodeAt(prev, field(_)) ==
    IF prev.kind # "Ok" THEN prev
    ELSE
        LET r == field(Drop(prev.buf, prev.n)) IN
        [kind |-> r.kind, n |-> IF r.kind = "Ok" THEN prev.n + r.n ELSE 0,
         err |-> r.err, buf |-> Take(prev.buf, prev.n) \o r.buf]

ConnectHeader_encode(h, buf) ==
    LET name(b) == encode_string(h.name, b)
        level(b) == encode_u8(h.level, b)
        flags(b) == encode_u8(h.flags, b)
        keep_alive(b) == encode_u16(h.keep_alive, b)
    IN  EncodeAt(EncodeAt(EncodeAt(EncodeAt(EncOk(0, buf), name), level), flags),
                 keep_alive)

\* the largest connack return code, RefusedNotAuthorized
MaxConnackReturnCode == 5

\* a decode that converts the return code before the flags
Connack_decode_code_first(b) ==
    IF Len(b) < 2 THEN Partial(2 - Len(b))
    ELSE IF b[2] > MaxConnackReturnCode THEN Err("InvalidConnackReturnCode")
    ELSE IF BitAnd(254, b[1]) # 0 THEN Err("InvalidConnackFlag")
    ELSE Complete(2, ConnackHeader(b[1], b[2]))

Connack_decode(b) ==
    IF Len(b) < 2 THEN Partial(2 - Len(b))
    ELSE IF BitAnd(254, b[1]) # 0 THEN Err("InvalidConnackFlag")
    ELSE IF b[2] > MaxConnackReturnCode THEN Err("InvalidConnackReturnCode")
    ELSE Complete(2, ConnackHeader(b[1], b[2]))

PacketIdentifier_decode(tag, b) ==
    read(parse_u16(b), 0, LAMBDA id : Complete(id.n, PacketIdentifier(tag, id.val)))

PacketIdentifier_encoded_len(h) == 2

PacketIdentifier_encode(h, buf) == encode_u16(h.id, buf)

\* a decode that reads the packet identifier whatever the QoS is
Publish_decode_always_id(flags, b) ==
    IF ~PublishFlags_try_from(flags) THEN Err("InvalidQoS(BadPattern)")
    ELSE
        read(parse_string(b), 0, LAMBDA topic_name :
        read(parse_u16(Drop(b, topic_name.n)), topic_name.n, LAMBDA id :
            Complete(id.n, PublishHeader(topic_name.val, TRUE, id.val))))

Publish_decode(flags, b) ==
    IF ~PublishFlags_try_from(flags) THEN Err("InvalidQoS(BadPattern)")
    ELSE
        read(parse_string(b), 0, LAMBDA topic_name :
        IF PublishFlags_qos(flags).qos # "AtMostOnce"
        THEN read(parse_u16(Drop(b, topic_name.n)), topic_name.n, LAMBDA id :
                Complete(id.n, PublishHeader(topic_name.val, TRUE, id.val)))
        ELSE Complete(topic_name.n, PublishHeader(topic_name.val, FALSE, 0)))

PublishHeader_encoded_len(h) ==
    str_encoded_len(h.topic_name) + (IF h.has_id THEN 2 ELSE 0)

PublishHeader_encode(h, buf) ==
    LET topic_name(b) == encode_string(h.topic_name, b)
        id(b) == encode_u16(h.id, b)
        first == EncodeAt(EncOk(0, buf), topic_name)
    IN  IF h.has_id THEN EncodeAt(first, id) ELSE first

\* Option::None of VariableHeader::decode and Payload::decode
NoDecoder == [kind |-> "None", n |-> 0, val |-> NoVal, err |-> "none"]

\* VariableHeader::decode: the packet types it has an arm for
VariableHeader_decode(type, flags, b) ==
    IF type = "Connect" THEN Connect_decode(b)
    ELSE IF type = "Connack" THEN Connack_decode(b)
    ELSE IF type = "Subscribe" THEN PacketIdentifier_decode("Subscribe", b)
    ELSE IF type = "Suback" THEN PacketIdentifier_decode("Suback", b)
    ELSE IF type = "Publish" THEN Publish_decode(flags, b)
    ELSE NoDecoder

\* VariableHeader::encoded_len; -1 for the variants that reach unimplemented!()
VariableHeader_encoded_len(h) ==
    IF h.tag = "Connect" THEN ConnectHeader_encoded_len(h)
    ELSE IF h.tag = "Subscribe" THEN PacketIdentifier_encoded_len(h)
    ELSE IF h.tag = "Publish" THEN PublishHeader_encoded_len(h)
    ELSE -1

\* VariableHeader::encode, with the same arms
VariableHeader_encode(h, buf) ==
    IF h.tag = "Connect" THEN ConnectHeader_encode(h, buf)
    ELSE IF h.tag = "Subscribe" THEN PacketIdentifier_encode(h, buf)
    ELSE IF h.tag = "Publish" THEN PublishHeader_encode(h, buf)
    ELSE EncPanic(buf)

-----------------------------------------------------------------------------
(* payload/*.rs *)

\* One record shape for every Payload variant.  Subscribe::Encode keeps its
\* entries in topics, Subscribe::Decode and Suback keep the validated bytes.
BytesPayload(b) ==
    [tag |-> "Bytes", bytes |-> b, client_id |-> <<>>,
     has_will |-> FALSE, will_topic |-> <<>>, will_message |-> <<>>,
     has_username |-> FALSE, username |-> <<>>,
     has_password |-> FALSE, password |-> <<>>, topics |-> <<>>]

\* Default for Payload
DefaultPayload == BytesPayload(<<>>)

\* payload::connect::Connect::new(client_id, will, username, password)
ConnectPayload(client_id, has_w, will_topic, will_message, has_u, username, has_p, password) ==
    [DefaultPayload EXCEPT !.tag = "Connect", !.client_id = client_id,
        !.has_will = has_w, !.will_topic = will_topic, !.will_message = will_message,
        !.has_username = has_u, !.username = username,
        !.has_password = has_p, !.password = password]

\* Subscribe::new(topics), the Subscribe::Encode variant
Subscribe_new(topics) == [DefaultPayload EXCEPT !.tag = "SubscribeEncode", !.topics = topics]

\* the Subscribe::Decode variant
SubscribeDecoded(b) == [DefaultPayload EXCEPT !.tag = "SubscribeDecode", !.bytes = b]

\* Suback::new(return_codes); a ReturnCode is its byte
Suback_new(return_codes) == [DefaultPayload EXCEPT !.tag = "Suback", !.bytes = return_codes]

Entry(topic, qos) == [topic |-> topic, qos |-> qos]

parse_subscription(b) ==
    read(parse_string(b), 0, LAMBDA topic :
    read(parse_u8(Drop(b, topic.n)), topic.n, LAMBDA q :
    IF ~QoS_try_from(q.val).ok THEN Err("InvalidQoS(BadPattern)")
    ELSE Complete(q.n, Entry(topic.val, QoS_try_from(q.val).qos))))

\* the loop of Subscribe::decode from byte offset on
RECURSIVE Subscribe_decode_loop(_, _)
Subscribe_decode_loop(b, offset) ==
    IF offset >= Len(b) THEN Complete(Len(b), SubscribeDecoded(b))
    ELSE
        LET step(r) ==
                IF r.kind = "Partial" THEN Err("InvalidLength")
                ELSE IF r.kind # "Complete" THEN r
                ELSE Subscribe_decode_loop(b, offset + r.n)
        IN  step(parse_subscription(Drop(b, offset)))

Subscribe_decode(b) == Subscribe_decode_loop(b, 0)

\* Iter::next on Subscribe::Decode, repeated until None: the entries yielded;
\* an entry with qos "panic" ends the list where expect / unwrap panics
RECURSIVE Iter_decode(_, _)
Iter_decode(b, offset) ==
    IF offset >= Len(b) THEN <<>>
    ELSE
        LET next(r) ==
                IF r.kind # "Complete" THEN <<Entry(<<>>, "panic")>>
                ELSE <<r.val>> \o Iter_decode(b, offset + r.n)
        IN  next(parse_subscription(Drop(b, offset)))

\* one call of Iter::next with the iterator at offset: None, Some(item) and
\* the offset behind it, or a panic of expect / unwrap
Iter_next(p, offset) ==
    IF p.tag = "SubscribeEncode"
    THEN IF offset >= Len(p.topics)
         THEN [kind |-> "None", offset |-> offset, item |-> Entry(<<>>, "none")]
         ELSE [kind |-> "Some", offset |-> offset + 1, item |-> p.topics[offset + 1]]
    ELSE IF offset >= Len(p.bytes)
         THEN [kind |-> "None", offset |-> offset, item |-> Entry(<<>>, "none")]
         ELSE LET next(r) ==
                      IF r.kind # "Complete"
                      THEN [kind |-> "Panic", offset |-> offset, item |-> Entry(<<>>, "none")]
                      ELSE [kind |-> "Some", offset |-> offset + r.n, item |-> r.val]
              IN  next(parse_subscription(Drop(p.bytes, offset)))

\* Subscribe::topics(), collected
Subscribe_topics(p) ==
    IF p.tag = "SubscribeEncode" THEN p.topics ELSE Iter_decode(p.bytes, 0)

RECURSIVE SumLen(_, _)
SumLen(topics, i) ==
    IF i > Len(topics) THEN 0
    ELSE str_encoded_len(topics[i].topic) + 1 + SumLen(topics, i + 1)

Subscribe_encoded_len(p) == SumLen(Subscribe_topics(p), 1)

\* the fold of Subscribe::encode from entry i on
RECURSIVE Subscribe_encode_fold(_, _, _)
Subscribe_encode_fold(topics, i, acc) ==
    IF i > Len(topics) \/ acc.kind # "Ok" THEN acc
    ELSE
        LET topic(b) == encode_string(topics[i].topic, b)
            qos(b) == encode_u8(QoS_to_u8(topics[i].qos), b)
        IN  Subscribe_encode_fold(topics, i + 1, EncodeAt(EncodeAt(acc, topic), qos))

Subscribe_encode(p, buf) == Subscribe_encode_fold(Subscribe_topics(p), 1, EncOk(0, buf))

\* TryFrom<u8> for suback::ReturnCode
\* ReturnCode::set_failure(value): bit 7
ReturnCode_set_failure(code, value) == set_bit_range(code, 7, 7, IF value THEN 1 ELSE 0)

\* ReturnCode::set_max_qos(qos): bits 1..0
ReturnCode_set_max_qos(code, qos) == set_bit_range(code, 1, 0, QoS_to_u8(qos))

ReturnCode_try_from(val) ==
    IF BitAnd(124, val) # 0 THEN FALSE
    ELSE IF BitAnd(3, val) # 0 /\ BitAnd(128, val) # 0 THEN FALSE
    ELSE TRUE

Suback_decode(b) ==
    IF \E i \in 1..Len(b) : ~ReturnCode_try_from(b[i])
    THEN Err("InvalidSubackReturnCode")
    ELSE Complete(Len(b), Suback_new(b))

Suback_encoded_len(p) == Len(p.bytes)

Suback_encode(p, buf) ==
    IF Len(buf) < Len(p.bytes) THEN EncErr("OutOfSpace", buf)
    ELSE EncOk(Len(p.bytes), WriteAt(buf, 0, p.bytes))

\* Decodable for Will: the topic string, then the message byte-string
Will_decode(b) ==
    read(parse_string(b), 0, LAMBDA topic :
    read(parse_bytes(Drop(b, topic.n)), topic.n, LAMBDA message :
    Complete(message.n, [topic |-> topic.val, message |-> message.val])))

\* payload::connect::Connect::decode(flags, bytes); the password it returns
\* is Some(bytes), the slice it was given
ConnectPayload_decode(flags, b) ==
    read(parse_string(b), 0, LAMBDA client_id :
    read(IF has_will(flags) THEN Will_decode(Drop(b, client_id.n))
         ELSE Complete(0, [topic |-> <<>>, message |-> <<>>]), client_id.n, LAMBDA will :
    read(IF has_username(flags) THEN parse_string(Drop(b, will.n))
         ELSE Complete(0, <<>>), will.n, LAMBDA username :
    read(IF has_password(flags) THEN parse_bytes(Drop(b, username.n))
         ELSE Complete(0, <<>>), username.n, LAMBDA password :
    Complete(password.n,
             ConnectPayload(client_id.val,
                            has_will(flags), will.val.topic, will.val.message,
                            has_username(flags), username.val,
                            has_password(flags), IF has_password(flags) THEN b ELSE <<>>))))))

\* Encodable for Will
Will_encoded_len(p) == 2 + Len(p.will_topic) + 2 + Len(p.will_message)

Will_encode(p, buf) ==
    LET topic(b) == encode_string(p.will_topic, b)
        message(b) == encode_bytes(p.will_message, b)
    IN  EncodeAt(EncodeAt(EncOk(0, buf), topic), message)

\* Encodable for payload::connect::Connect
ConnectPayload_encoded_len(p) ==
    str_encoded_len(p.client_id)
    + (IF p.has_will THEN Will_encoded_len(p) ELSE 0)
    + (IF p.has_username THEN str_encoded_len(p.username) ELSE 0)
    + (IF p.has_password THEN 2 + Len(p.password) ELSE 0)

ConnectPayload_encode(p, buf) ==
    LET client_id(b) == encode_string(p.client_id, b)
        will(b) == Will_encode(p, b)
        username(b) == encode_string(p.username, b)
        password(b) == encode_bytes(p.password, b)
        s1 == EncodeAt(EncOk(0, buf), client_id)
        s2 == IF p.has_will THEN EncodeAt(s1, will) ELSE s1
        s3 == IF p.has_username THEN EncodeAt(s2, username) ELSE s2
    IN  IF p.has_password THEN EncodeAt(s3, password) ELSE s3

\* Payload::decode: Suback and Subscribe have a decoder, the rest have none
Payload_decode(type, b) ==
    IF type = "Suback" THEN Suback_decode(b)
    ELSE IF type = "Subscribe" THEN Subscribe_decode(b)
    ELSE NoDecoder

Payload_encoded_len(p) ==
    IF p.tag = "Connect" THEN ConnectPayload_encoded_len(p)
    ELSE IF p.tag \in {"SubscribeEncode", "SubscribeDecode"} THEN Subscribe_encoded_len(p)
    ELSE IF p.tag = "Suback" THEN Suback_encoded_len(p)
    ELSE Len(p.bytes)

Payload_encode(p, buf) ==
    IF p.tag = "Connect" THEN ConnectPayload_encode(p, buf)
    ELSE IF p.tag \in {"SubscribeEncode", "SubscribeDecode"} THEN Subscribe_encode(p, buf)
    ELSE IF p.tag = "Suback" THEN Suback_encode(p, buf)
    ELSE IF Len(buf) < Len(p.bytes) THEN EncErr("OutOfSpace", buf)
    ELSE EncOk(Len(p.bytes), WriteAt(buf, 0, p.bytes))

-----------------------------------------------------------------------------
(* packet.rs *)

Packet(fixed_header, variable_header, payload) ==
    [fixed_header |-> fixed_header, variable_header |-> variable_header,
     payload |-> payload]

NoPacket == Packet(FixedHeader_new("none", 0, 0), NoHeader, DefaultPayload)

\* what a typed constructor gives: Ok(packet), Err(error) or a panic
Built(p) == [kind |-> "Ok", err |-> "none", packet |-> p]

NotBuilt(kind, e) == [kind |-> kind, err |-> e, packet |-> NoPacket]

\* Packet::packet: the fixed header gets len = encoded_len(variable header)
\* + encoded_len(payload).  (u32::try_from fails only above u32::MAX, far
\* beyond any length built here.)
Packet_packet(type, flags, variable_header, payload) ==
    LET vlen == IF variable_header.tag = "None" THEN 0
                ELSE VariableHeader_encoded_len(variable_header)
    IN  IF vlen = -1 THEN NotBuilt("Panic", "none")
        ELSE Built(Packet(FixedHeader_new(type, flags, vlen + Payload_encoded_len(payload)),
                          variable_header, payload))

Packet_connect(variable_header, payload) ==
    Packet_packet("Connect", 0, variable_header, payload)

Packet_subscribe(id, payload) ==
    Packet_packet("Subscribe", 2, PacketIdentifier("Subscribe", id), payload)

\* the assert! of Packet::publish panics when it fails
\* a constructor without the assert!
Packet_publish_unchecked(flags, variable_header, payload) ==
    IF ~PublishFlags_qos(flags).ok THEN NotBuilt("Panic", "none")
    ELSE Packet_packet("Publish", flags, variable_header, BytesPayload(payload))

Packet_publish(flags, variable_header, payload) ==
    IF ~PublishFlags_qos(flags).ok THEN NotBuilt("Panic", "none")
    ELSE IF ~(PublishFlags_qos(flags).qos = "AtMostOnce" \/ variable_header.has_id)
    THEN NotBuilt("Panic", "none")
    ELSE Packet_packet("Publish", flags, variable_header, BytesPayload(payload))

Packet_puback(id) ==
    Packet_packet("Puback", 0, PacketIdentifier("Puback", id), DefaultPayload)

Packet_pingreq == Built(Packet(FixedHeader_new("Pingreq", 0, 0), NoHeader, DefaultPayload))

Packet_pingresp == Built(Packet(FixedHeader_new("Pingresp", 0, 0), NoHeader, DefaultPayload))

\* Packet::decode, the shortfall of payload bytes: payload_len - min(available,
\* payload_len); payload_len < 0 stands for a length that wrapped
payload_needed(payload_len, available) ==
    IF payload_len < 0 THEN payload_len - available
    ELSE payload_len - Min(available, payload_len)

\* a faulty byte count that leaves the fixed header's own bytes out
total_consumed_without_offset(fixed_header_offset, fixed_header) ==
    fixed_header.len

\* Packet::decode, the byte count of its Complete
total_consumed(fixed_header_offset, fixed_header) ==
    fixed_header_offset + fixed_header.len

Packet_decode(b) ==
    read(FixedHeader_decode(b), 0, LAMBDA fh :
    LET fixed_header_offset == fh.n
        fixed_header == fh.val
        payload(variable_header_consumed, variable_header) ==
            LET \* fixed_header.len() as usize - variable_header_consumed: panics
                \* below zero with overflow checks, wraps without
                payload_len == fixed_header.len - variable_header_consumed
                start == fixed_header_offset + variable_header_consumed
                available == Len(b) - start
                needed == payload_needed(payload_len, available)
                payload_bytes == Slice(b, start, start + payload_len)
                packet_of(pl) ==
                    IF pl.kind \in {"Partial", "Err", "Panic"} THEN pl
                    ELSE Complete(total_consumed(fixed_header_offset, fixed_header),
                                  Packet(fixed_header, variable_header,
                                         IF pl.kind = "Complete" THEN pl.val
                                         ELSE BytesPayload(payload_bytes)))
            IN  IF payload_len < 0 /\ overflow_checks THEN Panic
                ELSE IF needed # 0 THEN Partial(needed)
                ELSE packet_of(Payload_decode(fixed_header.type, payload_bytes))
        headers(vh) ==
            IF vh.kind \in {"Partial", "Err", "Panic"} THEN vh
            ELSE IF vh.kind = "Complete" THEN payload(vh.n, vh.val)
            ELSE payload(0, NoHeader)
    IN  headers(VariableHeader_decode(fixed_header.type, fixed_header.flags,
                                      Drop(b, fixed_header_offset))))

\* Encodable for Packet; -1 where the fixed header's encoded_len panics
Packet_encoded_len(p) ==
    IF FixedHeader_encoded_len(p.fixed_header) = -1 THEN -1
    ELSE FixedHeader_encoded_len(p.fixed_header) + p.fixed_header.len

Packet_encode(p, buf) ==
    LET fixed_header(b) == FixedHeader_encode(p.fixed_header, b)
        variable_header(b) == VariableHeader_encode(p.variable_header, b)
        payload(b) == Payload_encode(p.payload, b)
        s1 == EncodeAt(EncOk(0, buf), fixed_header)
        s2 == IF p.variable_header.tag # "None" THEN EncodeAt(s1, variable_header) ELSE s1
    IN  EncodeAt(s2, payload)

-----------------------------------------------------------------------------
(* The inputs the caller draws from *)

\* longest list of entries given to Subscribe::new
MaxEntries == 2

\* longest body (the bytes after the two fixed-header bytes) of a raw buffer
MaxRawBody == 2

\* longest buffer given to parse_remaining_length
MaxRLLen == 4

\* longest exhaustively enumerated string body given to parse_string
MaxStrBody == 2

\* length of the long Publish payload (its remaining length takes two digits)
LongPayloadLen == 130

\* longest packet the caller puts on the wire
MaxWireLen == 1024

\* how often the caller calls topics() on one Subscribe payload
MaxPasses == 2

SeqsUpTo(S, n) == UNION {[1..m -> S] : m \in 0..n}

Repeat(byte, n) == [i \in 1..n |-> byte]

\* &str values: well-formed UTF-8, U+0000 allowed by the type
TopicNames == {<<>>, <<97, 47, 98>>, <<195, 169>>, <<0>>}

FilterNames == {<<97>>, <<99, 47, 35>>}

Entries == {Entry(t, q) : t \in FilterNames, q \in QoSValues}

ShortPayloads == {<<>>, <<123, 125>>}

LongPayload == Repeat(120, LongPayloadLen)

PacketIds == {0, 258}

\* the PublishFlags the API can produce: default() and the setters, or
\* try_from, none of which leaves the QoS bits at 11
PublishFlagValues == {f \in 0..15 : PublishFlags_try_from(f)}

\* connect::Flags values: default plus the setters
ConnectFlagValues == {0, 2, 4, 14, 64, 128, 196, 246}

ConnectPayloads ==
    {ConnectPayload(<<97, 98, 99>>, w, <<119>>, <<1, 2>>, u, <<117>>, pw, <<112, 0>>) :
        w \in BOOLEAN, u \in BOOLEAN, pw \in BOOLEAN}

\* packets a peer sends that this library has no constructor for
PeerPackets ==
    {<<32, 2, 0, 0>>, <<32, 2, 1, 5>>, <<32, 4, 0, 0, 7, 7>>,
     <<144, 2, 0, 1>>, <<144, 5, 0, 1, 0, 2, 128>>,
     <<64, 2, 0, 1>>, <<80, 2, 0, 1>>, <<98, 2, 0, 1>>, <<224, 0>>,
     <<48, 128, 0>>, <<50, 133, 0, 0, 1, 97, 1, 2>>,
     <<16, 12, 0, 4, 77, 81, 84, 84, 4, 2, 0, 60, 0, 0>>}

FirstBytes == {0, 16, 32, 33, 48, 50, 54, 130, 144}

RawBodyBytes == {0, 1, 3, 128}

\* arbitrary bytes from the network: a first byte, a remaining-length byte
\* and a short body, and longer buffers, some holding a packet with the start
\* of the next one behind it
RawBuffers ==
    {<<>>} \cup {<<f>> : f \in FirstBytes}
    \cup {<<f, l>> \o body : f \in FirstBytes, l \in (0..MaxRawBody) \cup {128, 255},
                             body \in SeqsUpTo(RawBodyBytes, MaxRawBody)}
    \cup {<<16, 6, 0, 0, 3, 0, 0, 0>>, <<16, 6, 0, 0, 4, 24, 0, 0>>,
          <<16, 6, 0, 0, 4, 0, 0, 0>>, <<48, 3, 0, 5, 97, 98, 99, 100, 101>>,
          <<48, 3, 0, 1, 255>>, <<48, 3, 0, 1, 0>>,
          <<130, 5, 0, 1, 0, 1, 97>>, <<130, 6, 0, 1, 0, 1, 97, 3>>,
          <<130, 6, 0, 1, 0, 1, 97, 4>>, <<34, 255, 255, 255, 255, 1>>,
          <<32, 2, 0, 0, 208, 0>>, <<48, 3, 0, 1, 97, 192, 0>>,
          <<64, 2, 1, 2, 64, 2>>}

RLBytes == {0, 127, 128, 255}

RLBuffers == SeqsUpTo(RLBytes, MaxRLLen)

RLDigits == {0, 1, 64, 127}

\* remaining lengths at and around every digit-count boundary
RLValues ==
    {d1 + 128 * d2 + 16384 * d3 + 2097152 * d4 :
        d1 \in RLDigits, d2 \in RLDigits, d3 \in RLDigits, d4 \in RLDigits}

StrBodyBytes == {0, 97, 195, 169, 128, 255}

\* string bodies: every short sequence over StrBodyBytes, and longer
\* well-formed and ill-formed UTF-8
StrBodies ==
    SeqsUpTo(StrBodyBytes, MaxStrBody)
    \cup {<<100, 111, 110, 39, 116>>, <<226, 130, 172>>, <<240, 159, 152, 128>>,
          <<239, 187, 191, 97>>, <<237, 160, 128>>, <<237, 159, 191>>,
          <<224, 128, 128>>, <<224, 160, 128>>, <<192, 128>>, <<193, 191>>,
          <<240, 128, 128, 128>>, <<244, 143, 191, 191>>, <<244, 144, 128, 128>>,
          <<245, 128, 128, 128>>, <<226, 130>>, <<0, 159, 146, 150>>,
          <<97, 0, 98>>, <<226, 130, 172, 0>>}

\* buffers for parse_string: a length prefix and a body that is shorter than,
\* as long as or longer than the prefix says; and two buffers whose prefix is
\* 65534 and 65535 with that many bytes behind it
StrBuffers ==
    {<<>>, <<0>>, <<1>>}
    \cup {<<0, l>> \o body : l \in 0..(MaxStrBody + 2), body \in StrBodies}
    \cup {<<1, 0>> \o body : body \in {<<>>, <<97, 97>>}}
    \cup {<<255, l>> \o Repeat(97, 65280 + l) : l \in {254, 255}}

\* the &str values given to encode_string: short ones, and the lengths around
\* the largest a 2-byte prefix holds
EncStrings ==
    {<<>>, <<97>>, <<195, 169, 47>>, <<97, 0, 98>>}
    \cup {Repeat(97, n) : n \in {U16Max - 1, U16Max, U16Max + 1}}

\* the sizes of the output buffer tried for a string of len bytes
EncStringSizes(len) == {0, 1, 2, len + 1, len + 2, len + 3}

\* Suback payloads: every single byte, pairs over SubackBytes, and the four
\* codes of tests::decode
SubackBytes == {0, 1, 2, 3, 4, 128, 129, 131}

SubackBuffers ==
    {<<>>, <<128, 2, 1, 0>>}
    \cup {<<x>> : x \in 0..255}
    \cup {<<x, y>> : x \in SubackBytes, y \in SubackBytes}

\* the buffer the caller hands to an encode: size bytes, none of them zero
FreshBuffer(size) == Repeat(170, size)

\* the entries of the Subscribe payloads that are decoded and iterated
IterEntries ==
    {Entry(<<97>>, "AtMostOnce"), Entry(<<99, 47, 35>>, "AtLeastOnce"),
     Entry(<<97>>, "ExactlyOnce")}

\* the bytes Subscribe::new(topics) encodes into
SubscribeEncoding(topics) ==
    Subscribe_encode(Subscribe_new(topics),
                     FreshBuffer(Subscribe_encoded_len(Subscribe_new(topics)))).buf

\* Subscribe payloads from the network, each with the entries it was made
\* from: every prefix of the encoding of a short list, and a 65535-byte topic
\* filter without its QoS byte
SubscribeBuffers ==
    UNION {{<<topics, Take(SubscribeEncoding(topics), k)>> :
                k \in 0..Len(SubscribeEncoding(topics))} :
            topics \in SeqsUpTo(IterEntries, MaxEntries)}
    \cup {<<<<>>, <<255, 255>> \o Repeat(97, U16Max)>>}

\* the lists given to Subscribe::new for a round trip: the short ones, a topic
\* filter holding U+0000, and one of 65534 bytes
RoundTripLists ==
    SeqsUpTo(IterEntries, MaxEntries)
    \cup {<<Entry(<<97, 0>>, "AtLeastOnce")>>,
          <<Entry(Repeat(97, U16Max - 1), "AtMostOnce")>>}

\* the bytes behind the topic name of a Publish variable header
PublishTails == {<<>>, <<1>>, <<1, 2>>, <<1, 2, 3>>}

\* Connack variable headers from the network: the first byte and the second
\* around the values the conversions tell apart, cut short and with a byte
\* behind them
ConnackFirstBytes == {0, 1, 2, 3, 16, 128, 129, 254, 255}

ConnackSecondBytes == {0, 1, 2, 3, 4, 5, 6, 7, 128, 255}

ConnackBuffers ==
    {<<>>}
    \cup {<<x>> : x \in ConnackFirstBytes}
    \cup {<<x, y>> : x \in ConnackFirstBytes, y \in ConnackSecondBytes}
    \cup {<<x, y, 9>> : x \in ConnackFirstBytes, y \in ConnackSecondBytes}

\* Connect variable headers from the network, each with its protocol name:
\* a name, a level byte, a flags byte, a keep-alive and up to one byte behind
\* them, whole and cut after the level byte; and one with a 65534-byte name
ConnectNames == {<<>>, <<97>>, <<77, 81, 84, 84>>}

ConnectLevels == {0, 3, 4, 5}

ConnectFlagBytes == {0, 1, 2, 8, 16, 24, 26, 198, 231, 255}

ConnectTails == {<<0, 0>>, <<1, 2>>, <<255, 255, 7>>}

ConnectHeaderBuffers ==
    {<<name, <<0, Len(name)>> \o name \o <<level, flags>> \o tail>> :
        name \in ConnectNames, level \in ConnectLevels, flags \in ConnectFlagBytes,
        tail \in ConnectTails}
    \cup {<<name, <<0, Len(name)>> \o name \o <<level>>>> :
            name \in ConnectNames, level \in ConnectLevels}
    \cup {<<Repeat(97, U16Max - 1), <<255, 254>> \o Repeat(97, U16Max - 1) \o <<4, 2, 0, 60>>>>}

\* Connect payloads from the network: five length-prefixed fields and every
\* prefix of them, decoded under each combination of the presence flags
PayloadFieldBytes ==
    <<0, 3, 97, 98, 99>> \o <<0, 1, 119>> \o <<0, 2, 1, 2>> \o <<0, 1, 117>> \o <<0, 2, 112, 0>>

ConnectPayloadBuffers == {Take(PayloadFieldBytes, k) : k \in 0..Len(PayloadFieldBytes)}

PresenceFlagValues == {0, 4, 64, 68, 128, 132, 192, 196, 246}

\* packets of each decoded type, whole, and Publish packets under every
\* first byte with QoS bits 11
FirstPackets ==
    {<<48, 0>>, <<48, 3, 0, 1, 97>>, <<50, 3, 0, 1, 97>>, <<50, 5, 0, 1, 97, 0, 1>>,
     <<59, 6, 0, 1, 97, 0, 1, 7>>,
     <<32, 0>>, <<32, 2, 0, 0>>, <<32, 2, 1, 5>>,
     <<144, 3, 0, 1, 0>>, <<144, 0>>, <<130, 6, 0, 1, 0, 1, 97, 1>>, <<130, 2, 0, 1>>,
     <<192, 0>>, <<208, 0>>, <<224, 0>>, <<64, 2, 0, 1>>,
     <<16, 12, 0, 4, 77, 81, 84, 84, 4, 2, 0, 60, 0, 0>>, <<16, 0>>}
    \cup {<<f, 0>> : f \in {54, 55, 62, 63}}
    \cup {<<f, 3, 0, 1, 97>> : f \in {54, 55, 62, 63}}
    \cup {<<f, 128, 1>> \o Repeat(255, 128) : f \in {54, 63}}

\* the bytes behind the first packet in the receive buffer: none, or the
\* start of the next packet
NextPacketBytes == {<<>>, <<0>>, <<0, 0>>, <<48, 0>>, <<0, 1, 97, 0, 1>>, <<192, 0, 192, 0>>}

\* the len given to FixedHeader::new: both sides of every digit-count
\* boundary, and 2^31 - 1
FixedHeaderLens ==
    {0, 1, 127, 128, 16383, 16384, 2097151, 2097152, 268435455, 268435456, 2147483647}

PublishHeaders ==
    {PublishHeader(t, FALSE, 0) : t \in TopicNames}
    \cup {PublishHeader(t, TRUE, id) : t \in TopicNames, id \in PacketIds}

\* the arguments of Packet::publish: every short combination, a long
\* payload under two flag values, and topic names of the lengths around the
\* largest a 2-byte prefix holds
PublishArgs ==
    {<<f, h, pl>> : f \in PublishFlagValues, h \in PublishHeaders, pl \in ShortPayloads}
    \cup {<<f, PublishHeader(<<97, 47, 98>>, TRUE, 258), LongPayload>> : f \in {0, 2}}
    \cup {<<0, PublishHeader(Repeat(97, n), FALSE, 0), <<>>>> : n \in {U16Max - 1, U16Max + 1}}

-----------------------------------------------------------------------------
(* The caller *)

NoResult == [kind |-> "none", n |-> 0, val |-> NoVal, err |-> "none"]

NoOut == [kind |-> "none", n |-> 0, err |-> "none", buf |-> <<>>]

NothingBuilt == NotBuilt("none", "none")

\* the arguments a call was given besides its buffer: the flags, whether the
\* variable header has a packet identifier, a &str, a list of entries, a QoS
Args(flags, has_id, string, topics) ==
    [flags |-> flags, has_id |-> has_id, string |-> string, topics |-> topics,
     qos |-> "none"]

NoInput == Args(0, FALSE, <<>>, <<>>)

\* what the caller holds of an Iter: the number of the topics() call that made
\* it, the offset its last next() started from, its offset now, what that
\* next() returned ("new" before the first), the items yielded so far, and the
\* items of an earlier iteration that ran to its end
IterState(pass, at, offset, last, items, has_first, first) ==
    [pass |-> pass, at |-> at, offset |-> offset, last |-> last, items |-> items,
     has_first |-> has_first, first |-> first]

NoIter == IterState(0, 0, 0, "none", <<>>, FALSE, <<>>)

Init ==
    /\ overflow_checks \in BOOLEAN
    /\ pc = "idle"
    /\ op = "none"
    /\ arg = 0
    /\ packet = NothingBuilt
    /\ out = NoOut
    /\ wire = <<>>
    /\ bytes = <<>>
    /\ result = NoResult
    /\ input = NoInput
    /\ iter = NoIter
    /\ alone = NoResult

\* a typed constructor, given the arguments in, returned r
Construct(name, in, r) ==
    /\ pc = "idle"
    /\ pc' = "built"
    /\ op' = name
    /\ input' = in
    /\ packet' = r
    /\ UNCHANGED <<arg, out, wire, bytes, result, iter, alone, overflow_checks>>

DoConnect ==
    \E flags \in ConnectFlagValues, pl \in ConnectPayloads :
        Construct("Packet::connect", Args(flags, FALSE, <<>>, <<>>),
                  Packet_connect(ConnectHeader_new(flags, 60), pl))

DoSubscribe ==
    \E id \in PacketIds, topics \in SeqsUpTo(Entries, MaxEntries) :
        Construct("Packet::subscribe", Args(0, TRUE, <<>>, topics),
                  Packet_subscribe(id, Subscribe_new(topics)))

DoPublish ==
    \E a \in PublishArgs :
        Construct("Packet::publish", Args(a[1], a[2].has_id, a[2].topic_name, <<>>),
                  Packet_publish(a[1], a[2], a[3]))

DoPuback ==
    \E id \in PacketIds :
        Construct("Packet::puback", Args(0, TRUE, <<>>, <<>>), Packet_puback(id))

DoPingreq == Construct("Packet::pingreq", NoInput, Packet_pingreq)

DoPingresp == Construct("Packet::pingresp", NoInput, Packet_pingresp)

\* the sizes of the output buffer the caller tries for packet p: none, one
\* byte, one byte too few, encoded_len(p), and more than that
EncodeSizes(p) ==
    {0, 1, Packet_encoded_len(p) - 1, Packet_encoded_len(p), Packet_encoded_len(p) + 2}
        \cap Nat

\* Packet::encode into a buffer of one of these sizes; from a buffer of
\* encoded_len bytes what it wrote goes on the wire, up to MaxWireLen bytes
Encode ==
    /\ pc = "built"
    /\ packet.kind = "Ok"
    /\ Packet_encoded_len(packet.packet) # -1
    /\ \E size \in EncodeSizes(packet.packet) :
        out' = Packet_encode(packet.packet, FreshBuffer(size))
    /\ wire' = IF out'.kind = "Ok" /\ Len(out'.buf) = out'.n /\ out'.n <= MaxWireLen
               THEN out'.buf ELSE <<>>
    /\ pc' = IF out'.kind # "Ok" THEN "failed"
             ELSE IF Len(out'.buf) = out'.n /\ out'.n <= MaxWireLen THEN "wire"
             ELSE "encoded"
    /\ UNCHANGED <<op, arg, packet, bytes, result, input, iter, alone, overflow_checks>>

\* a peer's packet arrives on the wire
PeerSend ==
    /\ pc = "idle"
    /\ \E w \in PeerPackets : wire' = w
    /\ pc' = "wire"
    /\ op' = "peer"
    /\ UNCHANGED <<arg, packet, out, bytes, result, input, iter, alone, overflow_checks>>

\* the receiver holds the first k bytes of the wire and calls Packet::decode
Receive ==
    /\ pc = "wire"
    /\ \E k \in 0..Len(wire) : bytes' = Take(wire, k)
    /\ result' = Packet_decode(bytes')
    /\ pc' = "decoded"
    /\ arg' = 0
    /\ UNCHANGED <<op, packet, out, wire, input, iter, alone, overflow_checks>>

\* on Partial(n) the receiver buffers n more bytes of the wire (as many as
\* there are) behind the ones it holds; arg counts the calls after the first
Feed ==
    /\ pc = "decoded"
    /\ op # "raw"
    /\ result.kind = "Partial"
    /\ result.n >= 1
    /\ Len(bytes) < Len(wire)
    /\ bytes' = Take(wire, Min(Len(bytes) + result.n, Len(wire)))
    /\ arg' = arg + 1

\* ... and calls Packet::decode again
AppendBytes ==
    /\ Feed
    /\ result' = Packet_decode(bytes')
    /\ UNCHANGED <<pc, op, packet, out, wire, input, iter, alone, overflow_checks>>

\* arbitrary bytes arrive and the receiver calls Packet::decode on them
Inject ==
    /\ pc = "idle"
    /\ \E b \in RawBuffers : bytes' = b
    /\ wire' = bytes'
    /\ result' = Packet_decode(bytes')
    /\ pc' = "decoded"
    /\ op' = "raw"
    /\ UNCHANGED <<arg, packet, out, input, iter, alone, overflow_checks>>

\* a call of one of the leaf functions with buffer b and scalar argument a
Call(name, a, b, r) ==
    /\ pc = "idle"
    /\ pc' = "called"
    /\ op' = name
    /\ arg' = a
    /\ bytes' = b
    /\ result' = r
    /\ UNCHANGED <<packet, out, wire, input, iter, alone, overflow_checks>>

\* a call with arguments in and buffer b that returned r; an encode call
\* returned o, with the buffer it wrote
Invoke(name, a, b, in, o, r) ==
    /\ pc = "idle"
    /\ pc' = "called"
    /\ op' = name
    /\ arg' = a
    /\ bytes' = b
    /\ input' = in
    /\ out' = o
    /\ result' = r
    /\ UNCHANGED <<packet, wire, iter, alone, overflow_checks>>

CallParseRemainingLength ==
    \E b \in RLBuffers : Call("parse_remaining_length", 0, b, parse_remaining_length(b))

\* tests::remaining_length: encode v into a zeroed [u8; 4] and parse that
CallRemainingLengthRoundTrip ==
    /\ pc = "idle"
    /\ \E v \in RLValues :
        LET digits == encode_remaining_length(v)
            buf == WriteAt(Repeat(0, 4), 0, digits)
        IN  /\ arg' = v
            /\ IF encode_panics(digits)
               THEN /\ out' = EncPanic(Repeat(0, 4))
                    /\ bytes' = <<>>
                    /\ result' = Panic
               ELSE /\ out' = EncOk(Len(digits), buf)
                    /\ bytes' = buf
                    /\ result' = parse_remaining_length(buf)
    /\ pc' = "called"
    /\ op' = "remaining_length"
    /\ UNCHANGED <<packet, wire, input, iter, alone, overflow_checks>>

CallParsePacketType ==
    \E b \in 0..255 :
        LET t == parse_packet_type(b) IN
        Call("parse_packet_type", b, <<b>>,
             IF t.ok THEN Complete(1, [type |-> t.type, flags |-> t.flags]) ELSE Err(t.err))

CallParseString ==
    \E b \in StrBuffers : Call("parse_string", 0, b, parse_string(b))

\* encode_string(string, &mut buf) with buf of size bytes
CallEncodeString ==
    \E string \in EncStrings : \E size \in EncStringSizes(Len(string)) :
        Invoke("encode_string", size, <<>>, Args(0, FALSE, string, <<>>),
               encode_string(string, FreshBuffer(size)), NoResult)

\* encode_string into a buffer of encoded_len bytes, then parse_string on it
CallStringRoundTrip ==
    \E string \in EncStrings :
        LET o == encode_string(string, FreshBuffer(str_encoded_len(string))) IN
        Invoke("string_round_trip", 0, IF o.kind = "Ok" THEN o.buf ELSE <<>>,
               Args(0, FALSE, string, <<>>), o,
               IF o.kind = "Ok" THEN parse_string(o.buf) ELSE NoResult)

\* Subscribe::decode on a payload from the network
CallSubscribeDecode ==
    \E b \in SubscribeBuffers :
        Invoke("Subscribe::decode", 0, b[2], Args(0, FALSE, <<>>, b[1]), NoOut,
               Subscribe_decode(b[2]))

\* Subscribe::new(topics) encoded into encoded_len bytes, and Subscribe::decode
\* on those
CallSubscribeRoundTrip ==
    \E topics \in RoundTripLists :
        LET p == Subscribe_new(topics)
            o == Subscribe_encode(p, FreshBuffer(Subscribe_encoded_len(p)))
        IN  Invoke("subscribe_round_trip", 0, IF o.kind = "Ok" THEN o.buf ELSE <<>>,
                   Args(0, FALSE, <<>>, topics), o,
                   IF o.kind = "Ok" THEN Subscribe_decode(o.buf) ELSE NoResult)

\* the caller holds a decoded Subscribe payload
HoldsSubscribe ==
    /\ pc = "called"
    /\ op \in {"Subscribe::decode", "subscribe_round_trip"}
    /\ result.kind = "Complete"

\* Subscribe::topics(): a new Iter at offset 0
Topics ==
    /\ HoldsSubscribe
    /\ iter.pass < MaxPasses
    /\ iter' = IF iter.last = "None" /\ ~iter.has_first
               THEN IterState(iter.pass + 1, 0, 0, "new", <<>>, TRUE, iter.items)
               ELSE IterState(iter.pass + 1, 0, 0, "new", <<>>, iter.has_first, iter.first)
    /\ UNCHANGED <<pc, op, arg, packet, out, wire, bytes, result, input, alone, overflow_checks>>

\* Iter::next on the Iter the caller holds
IterNext ==
    /\ HoldsSubscribe
    /\ iter.last \in {"new", "Some"}
    /\ LET n == Iter_next(result.val, iter.offset) IN
        iter' = IterState(iter.pass, iter.offset, n.offset, n.kind,
                          IF n.kind = "Some" THEN Append(iter.items, n.item) ELSE iter.items,
                          iter.has_first, iter.first)
    /\ UNCHANGED <<pc, op, arg, packet, out, wire, bytes, result, input, alone, overflow_checks>>

\* variable_header::publish::Publish::decode under each PacketFlags nibble,
\* on a topic name followed by up to 3 bytes
CallPublishDecode ==
    \E flags \in 0..15 : \E topic \in TopicNames : \E tail \in PublishTails :
        LET b == <<0, Len(topic)>> \o topic \o tail IN
        Invoke("Publish::decode", flags, b, Args(flags, FALSE, topic, <<>>), NoOut,
               Publish_decode(flags, b))

\* QoS::try_from on each byte
CallQoSTryFrom ==
    \E byte \in 0..255 :
        Invoke("QoS::try_from", byte, <<>>, NoInput, NoOut,
               IF QoS_try_from(byte).ok THEN Ok(QoS_try_from(byte).qos)
               ELSE Err(QoS_try_from(byte).qos))

\* QoS::try_from(u8::from(qos)) on each QoS
CallQoSRoundTrip ==
    \E qos \in QoSValues :
        Invoke("qos_round_trip", QoS_to_u8(qos), <<>>, [NoInput EXCEPT !.qos = qos], NoOut,
               IF QoS_try_from(QoS_to_u8(qos)).ok THEN Ok(QoS_try_from(QoS_to_u8(qos)).qos)
               ELSE Err(QoS_try_from(QoS_to_u8(qos)).qos))

\* variable_header::connack::Connack::decode
CallConnackDecode ==
    \E b \in ConnackBuffers :
        Invoke("Connack::decode", 0, b, NoInput, NoOut, Connack_decode(b))

\* variable_header::connect::Connect::decode
CallConnectHeaderDecode ==
    \E b \in ConnectHeaderBuffers :
        Invoke("Connect::decode", 0, b[2], Args(0, FALSE, b[1], <<>>), NoOut,
               Connect_decode(b[2]))

\* payload::connect::Connect::decode
CallConnectPayloadDecode ==
    \E flags \in PresenceFlagValues : \E b \in ConnectPayloadBuffers :
        Invoke("payload::Connect::decode", flags, b, Args(flags, FALSE, <<>>, <<>>), NoOut,
               ConnectPayload_decode(flags, b))

\* Packet::decode on a buffer that holds a packet and the bytes behind it,
\* and on the same packet alone
DecodeBoth ==
    /\ pc = "idle"
    /\ \E first \in FirstPackets : \E next \in NextPacketBytes :
        /\ wire' = first
        /\ bytes' = first \o next
    /\ result' = Packet_decode(bytes')
    /\ alone' = Packet_decode(wire')
    /\ pc' = "called"
    /\ op' = "Packet::decode"
    /\ UNCHANGED <<arg, packet, out, input, iter, overflow_checks>>

\* FixedHeader::new(type, flags, len), its encoded_len and its encode into a
\* buffer of 8 bytes
CallFixedHeaderEncode ==
    \E len \in FixedHeaderLens : \E type \in {"Pingreq", "Publish"} :
        LET fh == FixedHeader_new(type, 0, len) IN
        Invoke("FixedHeader::encode", len, <<>>, NoInput,
               FixedHeader_encode(fh, FreshBuffer(8)),
               IF FixedHeader_encoded_len(fh) = -1 THEN Panic
               ELSE Ok(FixedHeader_encoded_len(fh)))

\* a ReturnCode from the public API: one of the four constants, or a byte
\* that TryFrom<u8> accepts; arg is the ReturnCode's byte
NewReturnCode ==
    \E code \in {0, 1, 2, 128} \cup {val \in 0..255 : ReturnCode_try_from(val)} :
        Invoke("ReturnCode", code, <<>>, NoInput, NoOut, NoResult)

\* ReturnCode::set_failure on the ReturnCode the caller holds
SetFailure ==
    /\ pc = "called" /\ op = "ReturnCode"
    /\ \E value \in BOOLEAN : arg' = ReturnCode_set_failure(arg, value)
    /\ UNCHANGED <<pc, op, packet, out, wire, bytes, result, input, iter, alone, overflow_checks>>

\* ReturnCode::set_max_qos on the ReturnCode the caller holds
SetMaxQos ==
    /\ pc = "called" /\ op = "ReturnCode"
    /\ \E qos \in QoSValues : arg' = ReturnCode_set_max_qos(arg, qos)
    /\ UNCHANGED <<pc, op, packet, out, wire, bytes, result, input, iter, alone, overflow_checks>>

\* Suback::new(&[code]) encoded into encoded_len bytes, and Suback::decode on
\* those
SubackRoundTrip ==
    /\ pc = "called" /\ op = "ReturnCode"
    /\ op' = "suback_round_trip"
    /\ out' = Suback_encode(Suback_new(<<arg>>),
                            FreshBuffer(Suback_encoded_len(Suback_new(<<arg>>))))
    /\ bytes' = IF out'.kind = "Ok" THEN out'.buf ELSE <<>>
    /\ result' = IF out'.kind = "Ok" THEN Suback_decode(out'.buf) ELSE NoResult
    /\ UNCHANGED <<pc, arg, packet, wire, input, iter, alone, overflow_checks>>

CallSubackDecode ==
    \E b \in SubackBuffers :
        Invoke("Suback::decode", 0, b, NoInput, NoOut, Suback_decode(b))

\* the caller drops what it holds
Return ==
    /\ pc # "idle"
    /\ pc' = "idle"
    /\ op' = "none"
    /\ arg' = 0
    /\ packet' = NothingBuilt
    /\ out' = NoOut
    /\ wire' = <<>>
    /\ bytes' = <<>>
    /\ result' = NoResult
    /\ input' = NoInput
    /\ iter' = NoIter
    /\ alone' = NoResult
    /\ UNCHANGED overflow_checks

Next ==
    \/ DoConnect
    \/ DoSubscribe
    \/ DoPublish
    \/ DoPuback
    \/ DoPingreq
    \/ DoPingresp
    \/ Encode
    \/ PeerSend
    \/ Receive
    \/ AppendBytes
    \/ Inject
    \/ CallParseRemainingLength
    \/ CallRemainingLengthRoundTrip
    \/ CallParsePacketType
    \/ CallParseString
    \/ CallEncodeString
    \/ CallStringRoundTrip
    \/ CallSubackDecode
    \/ CallPublishDecode
    \/ CallQoSTryFrom
    \/ CallQoSRoundTrip
    \/ CallConnackDecode
    \/ CallConnectHeaderDecode
    \/ CallConnectPayloadDecode
    \/ DecodeBoth
    \/ CallFixedHeaderEncode
    \/ NewReturnCode
    \/ SetFailure
    \/ SetMaxQos
    \/ SubackRoundTrip
    \/ CallSubscribeDecode
    \/ CallSubscribeRoundTrip
    \/ Topics
    \/ IterNext
    \/ Return

Spec == Init /\ [][Next]_vars

\* the receiver's side alone: packets are built, encoded and sent, and the
\* receiver, who holds a prefix, keeps calling Packet::decode as long as it is
\* told that bytes are missing
StreamNext ==
    \/ DoConnect
    \/ DoSubscribe
    \/ DoPublish
    \/ DoPuback
    \/ DoPingreq
    \/ DoPingresp
    \/ Encode
    \/ PeerSend
    \/ Receive
    \/ AppendBytes

\* the receiver does not stop feeding its buffer while bytes are missing
StreamSpec == Init /\ [][StreamNext]_vars /\ WF_<<bytes, arg>>(Feed)

-----------------------------------------------------------------------------
(* Properties *)

\* the six typed constructors
Constructors ==
    {"Packet::connect", "Packet::subscribe", "Packet::publish", "Packet::puback",
     "Packet::pingreq", "Packet::pingresp"}

\* the wire holds exactly one packet that Packet::decode accepts
ValidWire ==
    LET whole(r) == r.kind = "Complete" /\ r.n = Len(wire) IN whole(Packet_decode(wire))

\* two payloads of the same variant with the same fields; a Subscribe payload
\* is its entries, whichever way it holds them
SamePayload(p, q) ==
    IF p.tag \in {"SubscribeEncode", "SubscribeDecode"}
    THEN /\ q.tag \in {"SubscribeEncode", "SubscribeDecode"}
         /\ Subscribe_topics(p) = Subscribe_topics(q)
    ELSE p = q

SamePacket(p, q) ==
    /\ p.fixed_header = q.fixed_header
    /\ p.variable_header = q.variable_header
    /\ SamePayload(p.payload, q.payload)

\* C1: a packet built by a typed constructor encodes into encoded_len bytes,
\* and decoding those bytes gives Complete(encoded_len, the same packet): same
\* fixed header, same variable header, same payload variant and fields
C1_RoundTrip ==
    /\ (pc = "failed" /\ Len(out.buf) = Packet_encoded_len(packet.packet)
            /\ Len(out.buf) <= MaxWireLen => op \notin Constructors)
    /\ (pc = "decoded" /\ op \in Constructors /\ bytes = wire) =>
            /\ result.kind = "Complete"
            /\ result.n = Packet_encoded_len(packet.packet)
            /\ SamePacket(result.val, packet.packet)

\* C2: Packet::decode on a proper prefix of a valid packet returns Partial,
\* never Complete and never an error
C2_PartialOnPrefix ==
    (pc = "decoded" /\ op # "raw" /\ ValidWire /\ Len(bytes) < Len(wire)) =>
        result.kind = "Partial"

\* a Publish packet one byte short of complete
C2_Witness ==
    /\ pc = "decoded"
    /\ op = "Packet::publish"
    /\ ValidWire
    /\ Len(bytes) = Len(wire) - 1
    /\ result.kind = "Partial"

\* the receiver holds part of a valid packet
Streaming == pc = "decoded" /\ op # "raw" /\ ValidWire

\* the receiver got the whole packet
Streamed == Streaming /\ result.kind = "Complete" /\ result.n = Len(wire)

\* C3: a receiver that appends m bytes on every Partial(m) is always asked
\* for at least one byte and never for more than the packet has left, and it
\* gets Complete(N, packet) after finitely many calls
C3_StreamingProgress ==
    /\ []((Streaming /\ result.kind = "Partial") =>
            (result.n >= 1 /\ Len(bytes) + result.n <= Len(wire)))
    /\ (Streaming ~> Streamed)

\* a packet completed by the third call after the first
C3_Witness == Streamed /\ arg >= 3

\* C4: Packet::decode returns Complete, Partial or Err on every input; it
\* never panics and its byte counts never wrap below zero
C4_DecodeTotal ==
    pc = "decoded" =>
        /\ result.kind \in {"Complete", "Partial", "Err"}
        /\ result.n >= 0

\* C5: the byte count of a Complete is the fixed header's bytes plus its
\* remaining length, and no more than the buffer holds
C5_Consumed ==
    (pc = "decoded" /\ result.kind = "Complete") =>
        /\ result.n = FixedHeader_decode(bytes).n + result.val.fixed_header.len
        /\ result.n <= Len(bytes)

\* a packet with a body decoded from a buffer that holds more behind it
C5_Witness ==
    /\ pc = "decoded"
    /\ result.kind = "Complete"
    /\ result.val.fixed_header.len > 0
    /\ result.n < Len(bytes)

\* fixed_header.len() == encoded_len(variable_header) + encoded_len(payload),
\* with encoded_len defined on the variable header
LengthInvariant(p) ==
    LET sum(vlen) == vlen # -1 /\ p.fixed_header.len = vlen + Payload_encoded_len(p.payload)
    IN  sum(IF p.variable_header.tag = "None" THEN 0
            ELSE VariableHeader_encoded_len(p.variable_header))

\* C6: every packet a typed constructor returns and every packet
\* Packet::decode returns has the length invariant
C6_LengthInvariant ==
    /\ (pc = "built" /\ packet.kind = "Ok") => LengthInvariant(packet.packet)
    /\ (pc = "decoded" /\ result.kind = "Complete") => LengthInvariant(result.val)

\* the shortest number of base-128 digits of v
CanonicalDigits(v) ==
    IF v < 128 THEN 1 ELSE IF v < 16384 THEN 2 ELSE IF v < 2097152 THEN 3 ELSE 4

\* C7: encode_remaining_length writes the shortest encoding of v, and
\* parse_remaining_length gives Complete(n, v) back
C7_RemainingLengthRoundTrip ==
    (pc = "called" /\ op = "remaining_length") =>
        /\ out.kind = "Ok"
        /\ out.n = CanonicalDigits(arg)
        /\ result.kind = "Complete"
        /\ result.n = out.n
        /\ result.val = arg

\* the largest remaining length, 268435455, in four digits
C7_Witness ==
    /\ pc = "called"
    /\ op = "remaining_length"
    /\ arg = 127 + 128 * 127 + 16384 * 127 + 2097152 * 127
    /\ result.kind = "Complete"
    /\ result.n = 4

\* the bytes of b that are among its first four all have the continuation bit
AllContinue(b) == \A i \in 1..Min(Len(b), 4) : b[i] >= 128

\* C8: parse_remaining_length returns Err(RemainingLength) exactly on four
\* leading continuation bytes, Partial(1) exactly on fewer than four bytes
\* that all continue, and Complete on everything else
C8_RemainingLengthFailures ==
    (pc = "called" /\ op = "parse_remaining_length") =>
        /\ (result.kind = "Err" /\ result.err = "RemainingLength")
                <=> (Len(bytes) >= 4 /\ AllContinue(bytes))
        /\ (result.kind = "Partial" /\ result.n = 1)
                <=> (Len(bytes) < 4 /\ AllContinue(bytes))
        /\ (~AllContinue(bytes) => result.kind = "Complete")

\* four continuation bytes are refused
C8_Witness ==
    /\ pc = "called"
    /\ op = "parse_remaining_length"
    /\ Len(bytes) = 4
    /\ AllContinue(bytes)
    /\ result.kind = "Err"

\* the MQTT 3.1.1 control packet types by their number
TypeOfNibble ==
    [n \in 1..14 |->
        CASE n = 1 -> "Connect" [] n = 2 -> "Connack" [] n = 3 -> "Publish"
          [] n = 4 -> "Puback" [] n = 5 -> "Pubrec" [] n = 6 -> "Pubrel"
          [] n = 7 -> "Pubcomp" [] n = 8 -> "Subscribe" [] n = 9 -> "Suback"
          [] n = 10 -> "Unsubscribe" [] n = 11 -> "Unsuback" [] n = 12 -> "Pingreq"
          [] n = 13 -> "Pingresp" [] n = 14 -> "Disconnect"]

\* the low nibble a type's first byte must carry: 0000, 0010, or any (-1)
RequiredFlags(type) ==
    IF type \in {"Connect", "Connack", "Puback", "Pubrec", "Pubcomp", "Suback",
                 "Unsuback", "Pingreq", "Pingresp", "Disconnect"} THEN 0
    ELSE IF type \in {"Pubrel", "Subscribe", "Unsubscribe"} THEN 2
    ELSE -1

\* C9: parse_packet_type fails with PacketType on high nibble 0 or 15, with
\* PacketFlag on a low nibble other than the one the type requires, and
\* otherwise returns the type of the high nibble and the low nibble as flags
C9_FirstByteTable ==
    (pc = "called" /\ op = "parse_packet_type") =>
        LET high == arg \div 16
            low == arg % 16
        IN  IF high = 0 \/ high = 15
            THEN result.kind = "Err" /\ result.err = "PacketType"
            ELSE IF RequiredFlags(TypeOfNibble[high]) \notin {-1, low}
            THEN result.kind = "Err" /\ result.err = "PacketFlag"
            ELSE /\ result.kind = "Complete"
                 /\ result.val.type = TypeOfNibble[high]
                 /\ result.val.flags = low

\* a Subscribe first byte, 0b1000_0010, is accepted
C9_Witness ==
    /\ pc = "called"
    /\ op = "parse_packet_type"
    /\ arg = 130
    /\ result.kind = "Complete"
    /\ result.val.type = "Subscribe"

\* C10: parse_string on a length prefix L with at least L bytes behind it
\* returns Err(Utf8) if those bytes are not valid UTF-8 or hold U+0000 and
\* Complete(2 + L, the string) otherwise; L = 0 gives Complete(2, "")
C10_Utf8Policy ==
    (pc = "called" /\ op = "parse_string" /\ Len(bytes) >= 2) =>
        LET L == bytes[1] * 256 + bytes[2] IN
        Len(bytes) >= 2 + L =>
            /\ result.kind \in {"Complete", "Err"}
            /\ IF L > 0 /\ (~from_utf8_ok(SubSeq(bytes, 3, 2 + L))
                            \/ \E i \in 3..(2 + L) : bytes[i] = 0)
               THEN result.kind = "Err" /\ result.err = "Utf8"
               ELSE /\ result.kind = "Complete"
                    /\ result.n = 2 + L
                    /\ result.val = SubSeq(bytes, 3, 2 + L)

\* Packet::encode was called on a packet of a typed constructor
Encoded == pc \in {"failed", "encoded", "wire"} /\ op \in Constructors

\* C11: Packet::encode into a buffer shorter than encoded_len(packet), the
\* empty and the 1-byte buffer included, returns Err(OutOfSpace); it neither
\* panics nor returns Ok
C11_ShortBuffer ==
    (Encoded /\ Len(out.buf) < Packet_encoded_len(packet.packet)) =>
        /\ out.kind = "Err"
        /\ out.err = "OutOfSpace"

\* C12: Packet::encode into a buffer of at least encoded_len(packet) bytes
\* returns Ok(encoded_len(packet)) and leaves the bytes from index
\* encoded_len(packet) on as they were
C12_ExactSize ==
    (Encoded /\ Len(out.buf) >= Packet_encoded_len(packet.packet)) =>
        /\ out.kind = "Ok"
        /\ out.n = Packet_encoded_len(packet.packet)
        /\ \A i \in (Packet_encoded_len(packet.packet) + 1)..Len(out.buf) :
                out.buf[i] = FreshBuffer(Len(out.buf))[i]

\* C13: encode_string returns Err(ValueTooBig) exactly when the string has
\* more than 65535 bytes; for every length L up to 65535 it returns Ok(2 + L)
\* into a buffer of at least 2 + L bytes and Err(OutOfSpace) into a shorter
\* one, and never panics
C13_EncodeString ==
    (pc = "called" /\ op = "encode_string") =>
        LET L == Len(input.string) IN
        /\ (out.kind = "Err" /\ out.err = "ValueTooBig") <=> L > U16Max
        /\ (L <= U16Max /\ Len(out.buf) >= 2 + L) => (out.kind = "Ok" /\ out.n = 2 + L)
        /\ (L <= U16Max /\ Len(out.buf) < 2 + L)
                => (out.kind = "Err" /\ out.err = "OutOfSpace")

\* C20: for every string of up to 65535 bytes without U+0000, encode_string
\* into a buffer of 2 + L bytes and parse_string on that buffer give
\* Complete(2 + L, the string), L = 65534 and L = 65535 included; parse_string
\* on fewer than 2 bytes returns Partial(2 - len), and on a prefix L with only
\* a < L bytes behind it Partial(L - a)
C20_StringRoundTrip ==
    /\ (pc = "called" /\ op = "string_round_trip" /\ Len(input.string) <= U16Max
            /\ \A i \in DOMAIN input.string : input.string[i] # 0) =>
            /\ out.kind = "Ok"
            /\ result.kind = "Complete"
            /\ result.n = 2 + Len(input.string)
            /\ result.val = input.string
    /\ (pc = "called" /\ op = "parse_string" /\ Len(bytes) < 2) =>
            result = Partial(2 - Len(bytes))
    /\ (pc = "called" /\ op = "parse_string" /\ Len(bytes) >= 2) =>
            LET L == bytes[1] * 256 + bytes[2]
                a == Len(bytes) - 2
            IN  a < L => result = Partial(L - a)

\* the return codes of MQTT 3.1.1: success with QoS 0, 1 or 2, and failure
ValidReturnCodes == {0, 1, 2, 128}

\* C14: Suback::decode returns Err(InvalidSubackReturnCode) iff some payload
\* byte is not 0x00, 0x01, 0x02 or 0x80, and otherwise Complete(n, the n
\* return codes in input order)
C14_SubackReturnCodes ==
    (pc = "called" /\ op = "Suback::decode") =>
        IF \E i \in DOMAIN bytes : bytes[i] \notin ValidReturnCodes
        THEN result.kind = "Err" /\ result.err = "InvalidSubackReturnCode"
        ELSE /\ result.kind = "Complete"
             /\ result.n = Len(bytes)
             /\ result.val = Suback_new(bytes)

\* a Subscribe payload whose last entry is cut short: walking the entries by
\* their length prefixes ends inside a prefix, inside a topic, or right
\* before a QoS byte
RECURSIVE CutShort(_)
CutShort(b) ==
    IF b = <<>> THEN FALSE
    ELSE IF Len(b) < 2 THEN TRUE
    ELSE IF Len(b) <= 2 + b[1] * 256 + b[2] THEN TRUE
    ELSE CutShort(Drop(b, 2 + b[1] * 256 + b[2] + 1))

\* C15: Subscribe::decode on a payload whose last entry is cut short (its QoS
\* byte, part of its topic or part of its length prefix missing) returns
\* Err(InvalidLength): not Partial, not a panic, not a Complete list
C15_SubscribeTruncation ==
    (pc = "called" /\ op = "Subscribe::decode" /\ CutShort(bytes)) =>
        result.kind = "Err" /\ result.err = "InvalidLength"

\* C16: on a Subscribe payload from a successful decode every topics()
\* iteration runs without a panic, yields the entries in wire order, returns
\* None exactly at the offset equal to the payload length and yields what the
\* iteration before it yielded; the encoding of Subscribe::new(L) decodes and
\* iterates to exactly L
C16_SubscribeIteration ==
    /\ (pc = "called" /\ op = "subscribe_round_trip") =>
            out.kind = "Ok" /\ result.kind = "Complete"
    /\ (pc = "called" /\ op \in {"Subscribe::decode", "subscribe_round_trip"}
            /\ iter.pass >= 1) =>
        /\ iter.last # "Panic"
        /\ iter.last \in {"Some", "None"} => (iter.last = "None" <=> iter.at = Len(bytes))
        /\ Len(iter.items) <= Len(input.topics)
        /\ iter.items = Take(input.topics, Len(iter.items))
        /\ (iter.last = "None" /\ iter.has_first) => iter.items = iter.first
        /\ (iter.last = "None" /\ op = "subscribe_round_trip") => iter.items = input.topics

\* the QoS in bits 2..1 of a PacketFlags nibble, 3 being no QoS
FlagsQoS(flags) == (flags \div 2) % 4

\* C17: Publish::decode under flags with a valid QoS yields a header with a
\* packet identifier (the big-endian u16 right behind the topic string,
\* consumed = 2 + len(topic) + 2) iff the QoS is AtLeastOnce or ExactlyOnce,
\* and one without (consumed = 2 + len(topic)) iff the QoS is AtMostOnce
C17_PublishHeaderDecode ==
    (pc = "called" /\ op = "Publish::decode" /\ FlagsQoS(arg) # 3) =>
        LET L == Len(input.string)
            need == IF FlagsQoS(arg) = 0 THEN 2 + L ELSE 2 + L + 2
        IN  /\ (Len(bytes) >= need /\ ~has_nul_char(input.string)) => result.kind = "Complete"
            /\ Len(bytes) < need => result.kind # "Complete"
            /\ result.kind = "Complete" =>
                /\ result.val.topic_name = input.string
                /\ result.val.has_id <=> FlagsQoS(arg) \in {1, 2}
                /\ ~result.val.has_id <=> FlagsQoS(arg) = 0
                /\ result.val.has_id =>
                    /\ result.n = 2 + L + 2
                    /\ result.val.id = bytes[2 + L + 1] * 256 + bytes[2 + L + 2]
                /\ ~result.val.has_id => result.n = 2 + L

C17_Witness ==
    /\ pc = "called" /\ op = "Publish::decode"
    /\ FlagsQoS(arg) = 2
    /\ Len(input.string) = 3
    /\ Len(bytes) = 8
    /\ result.kind = "Complete"
    /\ result.val.has_id /\ result.val.id = 258 /\ result.n = 7

\* C18: Packet::publish returns no packet when the QoS of the flags is
\* AtLeastOnce or ExactlyOnce and the variable header has no packet identifier
C18_PublishNeedsId ==
    (pc = "built" /\ op = "Packet::publish" /\ FlagsQoS(input.flags) \in {1, 2}
        /\ ~input.has_id) => packet.kind # "Ok"

C18_Witness ==
    /\ pc = "built" /\ op = "Packet::publish"
    /\ FlagsQoS(input.flags) = 1
    /\ ~input.has_id
    /\ packet.kind = "Panic"

\* C19: QoS::try_from(b) depends only on b & 0b11: AtMostOnce for 00,
\* AtLeastOnce for 01, ExactlyOnce for 10, Err(BadPattern) for 11; and
\* QoS::try_from(u8::from(q)) = Ok(q) for each of the three QoS values
C19_QoSCodec ==
    /\ (pc = "called" /\ op = "QoS::try_from") =>
            result = CASE arg % 4 = 0 -> Ok("AtMostOnce")
                       [] arg % 4 = 1 -> Ok("AtLeastOnce")
                       [] arg % 4 = 2 -> Ok("ExactlyOnce")
                       [] arg % 4 = 3 -> Err("BadPattern")
    /\ (pc = "called" /\ op = "qos_round_trip") =>
            input.qos \in QoSValues /\ result = Ok(input.qos)

C19_Witness ==
    /\ pc = "called" /\ op = "QoS::try_from"
    /\ arg = 254
    /\ result = Ok("ExactlyOnce")

\* C21: Connack::decode on at least 2 bytes returns Err(InvalidConnackFlag)
\* iff a bit of 1..7 of the first byte is set, otherwise
\* Err(InvalidConnackReturnCode) iff the second byte is above 5, otherwise
\* Complete(2, Connack) with the return code numbered by the second byte; on
\* fewer than 2 bytes it returns Partial(2 - len)
C21_ConnackDecode ==
    (pc = "called" /\ op = "Connack::decode") =>
        IF Len(bytes) < 2 THEN result.kind = "Partial" /\ result.n = 2 - Len(bytes)
        ELSE IF bytes[1] \div 2 # 0 THEN result.kind = "Err" /\ result.err = "InvalidConnackFlag"
        ELSE IF bytes[2] > 5 THEN result.kind = "Err" /\ result.err = "InvalidConnackReturnCode"
        ELSE /\ result.kind = "Complete"
             /\ result.n = 2
             /\ result.val.tag = "Connack"
             /\ result.val.return_code = bytes[2]

C21_Witness ==
    /\ pc = "called" /\ op = "Connack::decode"
    /\ bytes = <<2, 6, 9>>
    /\ result.kind = "Err" /\ result.err = "InvalidConnackFlag"

\* C22: for every Connack variable header that decodes, session_present() is
\* true exactly when bit 0 of the flags byte on the wire is 1
C22_SessionPresent ==
    (pc = "called" /\ op = "Connack::decode" /\ result.kind = "Complete") =>
        (session_present(result.val.flags) <=> bytes[1] % 2 = 1)

\* C23: Connect::decode of the variable header, with the protocol name and
\* the 4 bytes behind it in the buffer: a level byte other than 4 gives
\* Err(InvalidProtocolLevel), otherwise a flags byte with bits 4..3 = 11 gives
\* Err(InvalidConnectFlag), otherwise Complete(2 + len(name) + 4, Connect) with
\* the name, level 3.1.1, the flags byte unchanged and the big-endian keep-alive
C23_ConnectHeaderDecode ==
    (pc = "called" /\ op = "Connect::decode"
        /\ Len(bytes) >= 2 + Len(input.string) + 4) =>
        LET L == Len(input.string) IN
        IF bytes[2 + L + 1] # 4
        THEN result.kind = "Err" /\ result.err = "InvalidProtocolLevel"
        ELSE IF (bytes[2 + L + 2] \div 8) % 4 = 3
        THEN result.kind = "Err" /\ result.err = "InvalidConnectFlag"
        ELSE /\ result.kind = "Complete"
             /\ result.n = 2 + L + 4
             /\ result.val.tag = "Connect"
             /\ result.val.name = input.string
             /\ result.val.level = 4
             /\ result.val.flags = bytes[2 + L + 2]
             /\ result.val.keep_alive = bytes[2 + L + 3] * 256 + bytes[2 + L + 4]

\* the offset of the k-th length-prefixed field of b, found by walking the
\* 2-byte prefixes of the fields before it
RECURSIVE FieldStart(_, _)
FieldStart(b, k) ==
    IF k = 1 THEN 0
    ELSE LET o == FieldStart(b, k - 1) IN o + 2 + b[o + 1] * 256 + b[o + 2]

\* the content of the k-th length-prefixed field of b
FieldBody(b, k) == SubSeq(b, FieldStart(b, k) + 3, FieldStart(b, k + 1))

\* C24: payload::connect::Connect::decode reads the client id, then a Will
\* (topic, message) iff has_will, then a username iff has_username, then a
\* password iff has_password; each decoded field is the content of its own
\* length-prefixed field (the password is the bytes behind the password's
\* prefix), absent fields are None, and consumed is the sum of the encoded
\* lengths of the fields read
C24_ConnectPayloadDecode ==
    (pc = "called" /\ op = "payload::Connect::decode") =>
        LET w == (arg \div 4) % 2
            u == (arg \div 128) % 2
            p == (arg \div 64) % 2
            fields == 1 + 2 * w + u + p
        IN  /\ Len(bytes) >= 5 + 7 * w + 3 * u + 4 * p <=> result.kind = "Complete"
            /\ result.kind = "Complete" =>
                /\ result.n = FieldStart(bytes, fields + 1)
                /\ result.val.client_id = FieldBody(bytes, 1)
                /\ result.val.has_will <=> w = 1
                /\ w = 1 => /\ result.val.will_topic = FieldBody(bytes, 2)
                            /\ result.val.will_message = FieldBody(bytes, 3)
                /\ result.val.has_username <=> u = 1
                /\ u = 1 => result.val.username = FieldBody(bytes, 2 + 2 * w)
                /\ result.val.has_password <=> p = 1
                /\ p = 1 => result.val.password = FieldBody(bytes, 2 + 2 * w + u)

\* the index of the last remaining-length byte of buffer b, looked for from
\* index i on; 0 when the remaining length is cut short or has a fifth byte
RECURSIVE LastLengthByte(_, _)
LastLengthByte(b, i) ==
    IF i > Len(b) \/ i > 5 THEN 0
    ELSE IF b[i] < 128 THEN i
    ELSE LastLengthByte(b, i + 1)

\* the value of the remaining-length bytes b[i] .. b[last]
RECURSIVE LengthValue(_, _, _)
LengthValue(b, i, last) ==
    (b[i] % 128) + (IF i < last THEN 128 * LengthValue(b, i + 1, last) ELSE 0)

\* the buffer starts with a whole fixed header: a first byte of the table of
\* packet types and flags, and a remaining length
HoldsFixedHeader(b) ==
    /\ Len(b) >= 2
    /\ b[1] \div 16 \in 1..14
    /\ RequiredFlags(TypeOfNibble[b[1] \div 16]) \in {-1, b[1] % 16}
    /\ LastLengthByte(b, 2) # 0

\* fixed_header_len + remaining_length, the end of the packet b starts with
PacketEnd(b) == LastLengthByte(b, 2) + LengthValue(b, 2, LastLengthByte(b, 2))

\* Packet::decode was called on bytes and returned result
Decoded == pc = "decoded" \/ (pc = "called" /\ op = "Packet::decode")

\* C25: a Publish packet whose flags have QoS bits 11 passes the fixed-header
\* decoding and Packet::decode rejects it with Err(InvalidQoS(BadPattern)),
\* whatever DUP and RETAIN are and whatever bytes follow the fixed header
C25_PublishBadQoS ==
    (Decoded /\ HoldsFixedHeader(bytes) /\ bytes[1] \div 16 = 3
        /\ (bytes[1] \div 2) % 4 = 3) =>
        result.kind = "Err" /\ result.err = "InvalidQoS(BadPattern)"

C25_Witness ==
    /\ pc = "called" /\ op = "Packet::decode"
    /\ bytes = <<63, 3, 0, 1, 97, 192, 0, 192, 0>>
    /\ result.kind = "Err" /\ result.err = "InvalidQoS(BadPattern)"

\* C27: Packet::decode depends only on the bytes [0, fixed_header_len +
\* remaining_length): on two buffers that hold that range and agree on it, it
\* returns the same outcome
C27_BoundaryIndependence ==
    (pc = "called" /\ op = "Packet::decode" /\ HoldsFixedHeader(wire)
        /\ Len(wire) = PacketEnd(wire) /\ Take(bytes, Len(wire)) = wire) =>
        /\ result.kind = alone.kind
        /\ result.n = alone.n
        /\ result.err = alone.err
        /\ result.kind = "Complete" => result.val = alone.val

\* C28: on a buffer whose fixed header decodes with remaining length R and
\* which holds at least fixed_header_len + R bytes, Packet::decode returns
\* Complete or an error, never Partial
C28_NoWaitOnWholePacket ==
    (Decoded /\ HoldsFixedHeader(bytes) /\ Len(bytes) >= PacketEnd(bytes)) =>
        result.kind \in {"Complete", "Err"}

\* C26: for every FixedHeader::new(type, flags, len) with len a u32,
\* encoded_len is 1 plus a digit count of 1 to 4 (2 up to 127, 3 up to 16383,
\* 4 up to 2097151, 5 up to 268435455), and neither encoded_len nor encode
\* writes a fifth remaining-length digit or panics
C26_FixedHeaderLen ==
    (pc = "called" /\ op = "FixedHeader::encode") =>
        /\ result.kind = "Ok"
        /\ result.val \in 2..5
        /\ arg <= 127 => result.val = 2
        /\ arg \in 128..16383 => result.val = 3
        /\ arg \in 16384..2097151 => result.val = 4
        /\ arg \in 2097152..268435455 => result.val = 5
        /\ out.kind = "Ok"
        /\ out.n = result.val

\* C29: every suback ReturnCode reachable through the public API (the four
\* constants and TryFrom<u8>, then any set_failure and set_max_qos calls) is
\* one that TryFrom<u8> accepts, so the Suback payload built from it and
\* encoded is decoded successfully by Suback::decode
C29_ReturnCodeReachable ==
    /\ (pc = "called" /\ op = "ReturnCode") => ReturnCode_try_from(arg)
    /\ (pc = "called" /\ op = "suback_round_trip") =>
            /\ out.kind = "Ok"
            /\ result.kind = "Complete"
            /\ result.val = Suback_new(<<arg>>)

\* C30: every packet returned by Packet::connect has Connect-Flags that agree
\* with its payload: has_will, has_username and has_password are set exactly
\* when the payload carries a will, a username and a password
C30_ConnectFlagsAgree ==
    (pc = "built" /\ op = "Packet::connect" /\ packet.kind = "Ok") =>
        LET flags == packet.packet.variable_header.flags
            payload == packet.packet.payload
        IN  /\ (flags \div 4) % 2 = 1 <=> payload.has_will
            /\ (flags \div 128) % 2 = 1 <=> payload.has_username
            /\ (flags \div 64) % 2 = 1 <=> payload.has_password

====
